---- MODULE Spec2Model ----
(***************************************************************************)
(* A model of the Medicinal Cannabis Portal API (src/main.py,              *)
(* src/schemas.py): ten HTTP routes over a document store with four        *)
(* collections.  Every handler performs at most one store operation, so a  *)
(* request is one atomic step; the server then answers and is ready for    *)
(* the next request.                                                       *)
(*                                                                         *)
(* Conventions.  Optional[T] is a sequence of length 0 (None) or 1.        *)
(* Ordinary strings are TLA+ strings; the texts the search looks into      *)
(* (title, summary, q) and e-mail addresses are sequences of characters.   *)
(* Prices are whole numbers.  A JSON body is a function from field names   *)
(* to tagged values [t |-> "str" | "num" | "list" | "null", v |-> value].  *)
(***************************************************************************)
EXTENDS Integers, Sequences, FiniteSets, TLC

VARIABLES
    db,      \* the store handle: "none" (db is None), "up", "down" (raises)
    store,   \* collection name -> sequence of documents, in storage order
    nextId,  \* the number the store gives the next inserted document
    req,     \* the request being answered, [route |-> "idle"] between requests
    resp,    \* the outcome of that request
    ops      \* the store operations that request performed, in order

vars == <<db, store, nextId, req, resp, ops>>

(***************************************************************************)
(* Bounds of the model.                                                    *)
(***************************************************************************)
MaxDoctors == 2
MaxArticles == 2
MaxWrites == 2

(***************************************************************************)
(* Values.                                                                 *)
(***************************************************************************)
None == <<>>
Some(x) == <<x>>

Min(a, b) == IF a <= b THEN a ELSE b

Take(s, n) == SubSeq(s, 1, Min(n, Len(s)))

SeqsUpTo(S, n) == UNION {[1..k -> S] : k \in 0..n}

Elems(s) == {s[i] : i \in 1..Len(s)}

\* Python truthiness of an Optional[str]: None and "" are falsy.
Truthy(o) == o # None /\ o[1] # ""

\* The same for a text kept as a sequence of characters.
TruthyText(o) == o # None /\ o[1] # <<>>

Collections == {"article", "doctor", "appointmentrequest", "newslettersubscriber"}

Idle == [route |-> "idle"]
NoResp == [status |-> 0, kind |-> "none"]

(***************************************************************************)
(* The document store (database.py is not part of the sources; modelled    *)
(* after the document access layer's contract).                            *)
(***************************************************************************)
\* str.lower() on one character of the model's alphabet.
Lower(c) == IF c = "A" THEN "a" ELSE IF c = "B" THEN "b" ELSE c

\* One pattern character against one text character: "." is the regular
\* expression wildcard, any other character stands for itself, compared
\* without case under option "i".
RegexCharMatch(p, c, options) ==
    \/ p = "."
    \/ IF options = "i" THEN Lower(p) = Lower(c) ELSE p = c

\* $regex is an unanchored search: the pattern matches at some offset.
RegexSearch(pattern, text, options) ==
    \E off \in 0..(Len(text) - Len(pattern)) :
        \A k \in 1..Len(pattern) : RegexCharMatch(pattern[k], text[off + k], options)

\* One field condition of a filter against a document.
MatchField(doc, key, cond) ==
    CASE cond.op = "$eq" -> doc[key] = Some(cond.arg)
      [] cond.op = "$in" -> Elems(doc[key]) \cap Elems(cond.arg) # {}
      [] cond.op = "$lte" -> doc[key] # None /\ doc[key][1] <= cond.arg
      [] cond.op = "$regex" ->
            doc[key] # None /\ RegexSearch(cond.arg, doc[key][1], cond.options)

\* A filter is a function from keys to conditions, all of which must hold;
\* the key "$or" holds a sequence of filters of which one must hold.
Matches(doc, filt) ==
    \A key \in DOMAIN filt :
        IF key = "$or"
        THEN \E i \in 1..Len(filt[key]) :
                \A k2 \in DOMAIN filt[key][i] : MatchField(doc, k2, filt[key][i][k2])
        ELSE MatchField(doc, key, filt[key])

StoreRaises == db # "up"

FindOp(collection) == [op |-> "find", coll |-> collection]
InsertOp(collection) == [op |-> "insert_one", coll |-> collection]

\* get_documents(collection_name, filter_dict, limit): the first `limit`
\* matching documents in storage order, or an exception.
get_documents(collection, filt, limit) ==
    IF StoreRaises
    THEN [raised |-> TRUE, value |-> <<>>]
    ELSE [raised |-> FALSE,
          value |-> Take(SelectSeq(store[collection], LAMBDA d : Matches(d, filt)), limit)]

\* The store assigns each document its identifier.
WithIds(docs, prefix) ==
    [i \in 1..Len(docs) |-> docs[i] @@ ("_id" :> (prefix \o ToString(i)))]

(***************************************************************************)
(* GET /doctors                                                            *)
(***************************************************************************)
DoctorsDefaultLimit == 50
LimitMin == 1
LimitMax == 100

\* ValidLimit without the lower bound (ge=1 left out).
ValidLimitNoFloor(limit) == limit = None \/ limit[1] <= LimitMax

\* limit: int = Query(default, ge=1, le=100)
ValidLimit(limit) == limit = None \/ (limit[1] >= LimitMin /\ limit[1] <= LimitMax)

\* price_max: Optional[float] = Query(None, ge=0)
ValidPriceMax(price_max) == price_max = None \/ price_max[1] >= 0

In(v) == [op |-> "$in", arg |-> <<v>>]

EmptyFilt == [k \in {} |-> None]

\* DoctorsFilt with the price test written `if price_max:` (0 counts as absent).
DoctorsFiltPriceTruthy(r) ==
    (IF Truthy(r.specialty) THEN "specialties" :> In(r.specialty[1]) ELSE EmptyFilt)
    @@ (IF Truthy(r.state) THEN "states" :> In(r.state[1]) ELSE EmptyFilt)
    @@ (IF Truthy(r.city) THEN "cities" :> In(r.city[1]) ELSE EmptyFilt)
    @@ (IF Truthy(r.pathology) THEN "pathologies" :> In(r.pathology[1]) ELSE EmptyFilt)
    @@ (IF Truthy(r.consultation_type)
        THEN "consultation_types" :> In(r.consultation_type[1]) ELSE EmptyFilt)
    @@ (IF r.price_max # None /\ r.price_max[1] # 0
        THEN "price_from" :> [op |-> "$lte", arg |-> r.price_max[1]] ELSE EmptyFilt)

DoctorsFilt(r) ==
    (IF Truthy(r.specialty) THEN "specialties" :> In(r.specialty[1]) ELSE EmptyFilt)
    @@ (IF Truthy(r.state) THEN "states" :> In(r.state[1]) ELSE EmptyFilt)
    @@ (IF Truthy(r.city) THEN "cities" :> In(r.city[1]) ELSE EmptyFilt)
    @@ (IF Truthy(r.pathology) THEN "pathologies" :> In(r.pathology[1]) ELSE EmptyFilt)
    @@ (IF Truthy(r.consultation_type)
        THEN "consultation_types" :> In(r.consultation_type[1]) ELSE EmptyFilt)
    @@ (IF r.price_max # None
        THEN "price_from" :> [op |-> "$lte", arg |-> r.price_max[1]] ELSE EmptyFilt)

DoctorsLimit(r) == IF r.limit = None THEN DoctorsDefaultLimit ELSE r.limit[1]

\* What the framework makes of a handler's single store read.
ReadOutcome(res, collection) ==
    IF res.raised
    THEN [status |-> 500, kind |-> "error"]
    ELSE [status |-> 200, kind |-> "list", docs |-> res.value]

Rejected == [status |-> 422, kind |-> "validation"]

list_doctors(r) ==
    /\ req = Idle
    /\ req' = r
    /\ IF ValidLimit(r.limit) /\ ValidPriceMax(r.price_max)
       THEN /\ resp' = ReadOutcome(get_documents("doctor", DoctorsFilt(r), DoctorsLimit(r)),
                                   "doctor")
            /\ ops' = <<FindOp("doctor")>>
       ELSE /\ resp' = Rejected
            /\ ops' = <<>>
    /\ UNCHANGED <<db, store, nextId>>

\* The response is sent and the server waits for the next request.
Respond ==
    /\ req # Idle
    /\ req' = Idle
    /\ resp' = NoResp
    /\ ops' = <<>>
    /\ UNCHANGED <<db, store, nextId>>

(***************************************************************************)
(* The store's availability changes under the service.                     *)
(***************************************************************************)
StoreFails ==
    /\ req = Idle
    /\ db = "up"
    /\ db' = "down"
    /\ UNCHANGED <<store, nextId, req, resp, ops>>

StoreRecovers ==
    /\ req = Idle
    /\ db = "down"
    /\ db' = "up"
    /\ UNCHANGED <<store, nextId, req, resp, ops>>

(***************************************************************************)
(* GET /articles, GET /articles/{slug}                                     *)
(***************************************************************************)
ArticlesDefaultLimit == 20

Regex(q) == [op |-> "$regex", arg |-> q, options |-> "i"]

ArticlesFilt(r) ==
    (IF TruthyText(r.q)
     THEN "$or" :> <<"title" :> Regex(r.q[1]), "summary" :> Regex(r.q[1])>>
     ELSE EmptyFilt)
    @@ (IF Truthy(r.category)
        THEN "category" :> [op |-> "$eq", arg |-> r.category[1]] ELSE EmptyFilt)
    @@ (IF Truthy(r.tag) THEN "tags" :> In(r.tag[1]) ELSE EmptyFilt)

ArticlesLimit(r) == IF r.limit = None THEN ArticlesDefaultLimit ELSE r.limit[1]

list_articles(r) ==
    /\ req = Idle
    /\ req' = r
    /\ IF ValidLimit(r.limit)
       THEN /\ resp' = ReadOutcome(get_documents("article", ArticlesFilt(r), ArticlesLimit(r)),
                                   "article")
            /\ ops' = <<FindOp("article")>>
       ELSE /\ resp' = Rejected
            /\ ops' = <<>>
    /\ UNCHANGED <<db, store, nextId>>

\* docs = get_documents("article", {"slug": slug}, limit=1)
\* ArticleOutcome without the `if not docs` test: docs[0] raises on no match.
ArticleOutcomeUnchecked(res) ==
    IF res.raised \/ res.value = <<>>
    THEN [status |-> 500, kind |-> "error"]
    ELSE [status |-> 200, kind |-> "doc", doc |-> res.value[1]]

ArticleOutcome(res) ==
    IF res.raised
    THEN [status |-> 500, kind |-> "error"]
    ELSE IF res.value = <<>>
         THEN [status |-> 404, kind |-> "error", detail |-> "Article not found"]
         ELSE [status |-> 200, kind |-> "doc", doc |-> res.value[1]]

get_article(r) ==
    /\ req = Idle
    /\ req' = r
    /\ resp' = ArticleOutcome(
                  get_documents("article", "slug" :> [op |-> "$eq", arg |-> r.slug], 1))
    /\ ops' = <<FindOp("article")>>
    /\ UNCHANGED <<db, store, nextId>>

(***************************************************************************)
(* GET /sitemap.xml, GET /robots.txt                                       *)
(***************************************************************************)
SitemapLimit == 500

\* os.getenv("FRONTEND_URL", "https://example.com"), with the variable unset.
BaseFrontend == "https://example.com"

StaticPaths == <<"/", "/articles", "/about", "/press", "/contact", "/privacy", "/terms", "/lgpd">>

UrlLine(path) == "  <url><loc>" \o BaseFrontend \o path \o "</loc></url>"

StaticUrls == [i \in 1..Len(StaticPaths) |-> UrlLine(StaticPaths[i])]

\* for a in articles: slug = a.get("slug"); if slug: urls.append(...)
ArticleUrls(articles) ==
    LET slugged == SelectSeq(articles, LAMBDA a : Truthy(a.slug))
    IN  [i \in 1..Len(slugged) |-> UrlLine("/articles/" \o slugged[i].slug[1])]

\* The try/except around the read: a failed read adds nothing.
SitemapStatusPropagating(res) == IF res.raised THEN 500 ELSE 200

SitemapStatus(res) == 200

SitemapUrls(res) ==
    IF res.raised THEN StaticUrls ELSE StaticUrls \o ArticleUrls(res.value)

\* The text is kept as its lines (the handler joins them with "\n").
SitemapXml(urls) ==
    <<"<?xml version=\"1.0\" encoding=\"UTF-8\"?>",
      "<urlset xmlns=\"http://www.sitemaps.org/schemas/sitemap/0.9\">">>
    \o urls \o <<"</urlset>">>

sitemap ==
    /\ req = Idle
    /\ req' = [route |-> "sitemap"]
    /\ LET res == get_documents("article", EmptyFilt, SitemapLimit)
       IN  resp' = [status |-> SitemapStatus(res), kind |-> "text",
                    lines |-> SitemapXml(SitemapUrls(res))]
    /\ ops' = <<FindOp("article")>>
    /\ UNCHANGED <<db, store, nextId>>

robots ==
    /\ req = Idle
    /\ req' = [route |-> "robots"]
    /\ resp' = [status |-> 200, kind |-> "text",
                lines |-> <<"User-agent: *", "Allow: /",
                            "Sitemap: " \o BaseFrontend \o "/sitemap.xml", "">>]
    /\ ops' = <<>>
    /\ UNCHANGED <<db, store, nextId>>

(***************************************************************************)
(* The doctors directory under every combination of its filters.           *)
(***************************************************************************)
ListFields == {"specialties", "states", "cities", "pathologies", "consultation_types"}

\* A doctor whose list fields in `has` hold the wanted value (after another
\* one) and whose other list fields hold only the other value.
DoctorDoc(has, price) ==
    [name |-> Some("Dr"),
     specialties |-> IF "specialties" \in has THEN <<"other", "neurology">> ELSE <<"other">>,
     states |-> IF "states" \in has THEN <<"RJ", "SP">> ELSE <<"RJ">>,
     cities |-> IF "cities" \in has THEN <<"Rio", "Santos">> ELSE <<>>,
     pathologies |-> IF "pathologies" \in has THEN <<"pain", "epilepsy">> ELSE <<"pain">>,
     consultation_types |-> IF "consultation_types" \in has
                            THEN <<"telemedicine">> ELSE <<"in-person">>,
     price_from |-> price]

DoctorPool ==
    {DoctorDoc(ListFields, p) : p \in {None, Some(0), Some(200)}}
    \cup {DoctorDoc(ListFields \ {f}, Some(0)) : f \in ListFields}
    \cup {DoctorDoc({}, Some(0))}

StrParams(v) == {None, Some(""), Some(v)}

DoctorReqs ==
    {r \in [route : {"list_doctors"},
            specialty : StrParams("neurology"),
            state : StrParams("SP"),
            city : StrParams("Santos"),
            pathology : StrParams("epilepsy"),
            consultation_type : StrParams("telemedicine"),
            price_max : {None, Some(0), Some(100), Some(-1)},
            limit : {None, Some(1)}] :
        Cardinality({p \in {"specialty", "state", "city", "pathology", "consultation_type"} :
                        r[p] = Some("")}) <= 1}

InitDoctors ==
    /\ db = "up"
    /\ \E ds \in SeqsUpTo(DoctorPool, MaxDoctors) :
          store = [c \in Collections |-> IF c = "doctor" THEN WithIds(ds, "d") ELSE <<>>]
    /\ nextId = 1
    /\ req = Idle
    /\ resp = NoResp
    /\ ops = <<>>

NextDoctors ==
    \/ \E r \in DoctorReqs : list_doctors(r)
    \/ Respond

SpecDoctors == InitDoctors /\ [][NextDoctors]_vars

(***************************************************************************)
(* C1: the doctors a valid GET /doctors returns.                           *)
(***************************************************************************)
ParamOf(f) ==
    CASE f = "specialties" -> "specialty"
      [] f = "states" -> "state"
      [] f = "cities" -> "city"
      [] f = "pathologies" -> "pathology"
      [] f = "consultation_types" -> "consultation_type"

PriceWithin(d, r) ==
    r.price_max # None => (d.price_from # None /\ d.price_from[1] <= r.price_max[1])

\* The claim's predicate: every supplied parameter constrains.
DoctorSatisfiesSupplied(d, r) ==
    /\ \A f \in ListFields : r[ParamOf(f)] # None => r[ParamOf(f)][1] \in Elems(d[f])
    /\ PriceWithin(d, r)

\* The same, with an empty string parameter counted as absent.
DoctorSatisfiesNonEmpty(d, r) ==
    /\ \A f \in ListFields :
          (r[ParamOf(f)] # None /\ r[ParamOf(f)][1] # "") => r[ParamOf(f)][1] \in Elems(d[f])
    /\ PriceWithin(d, r)

DoctorsAnswered == req.route = "list_doctors" /\ resp.status = 200

AskedLimit(r, default) == IF r.limit = None THEN default ELSE r.limit[1]

\* C1 as stated: a successful GET /doctors returns exactly the stored doctors,
\* up to limit and in storage order, that satisfy every supplied parameter's
\* predicate (membership for the five string parameters, price_from present
\* and <= price_max).
C1_AsStated ==
    DoctorsAnswered =>
        resp.docs = Take(SelectSeq(store["doctor"],
                                   LAMBDA d : DoctorSatisfiesSupplied(d, req)),
                         AskedLimit(req, 50))

\* C1 amended: the same, where a string parameter constrains only when it is
\* supplied and not the empty string; price_max constrains whenever supplied,
\* 0 included, and excludes doctors without price_from.
C1_DoctorsFilter ==
    DoctorsAnswered =>
        resp.docs = Take(SelectSeq(store["doctor"],
                                   LAMBDA d : DoctorSatisfiesNonEmpty(d, req)),
                         AskedLimit(req, 50))

\* state=SP&price_max=100 over a store holding a doctor without price_from:
\* some doctor is returned and some is left out.
C1_Witness ==
    /\ DoctorsAnswered
    /\ req.state = Some("SP") /\ req.price_max = Some(100) /\ req.limit = None
    /\ \E i \in 1..Len(store["doctor"]) :
          store["doctor"][i].price_from = None /\ "SP" \in Elems(store["doctor"][i].states)
    /\ Len(resp.docs) = 1
    /\ Len(store["doctor"]) = 2

(***************************************************************************)
(* The article search under every combination of its filters.              *)
(***************************************************************************)
ArticleDoc(title, slug, summary, category, tags) ==
    [title |-> title, slug |-> slug, summary |-> summary, category |-> category,
     tags |-> tags]

ArticlePool ==
    {ArticleDoc(Some(t), Some("cbd"), s, c, g) :
        t \in {<<"A", "b">>, <<"b">>}, s \in {None, Some(<<"a">>)},
        c \in {None, Some("news")}, g \in {<<>>, <<"cbd", "thc">>}}

ArticleReqs ==
    [route : {"list_articles"},
     q : {None, Some(<<>>), Some(<<"a">>), Some(<<"b", "a">>), Some(<<"a", "B">>), Some(<<".">>)},
     category : {None, Some(""), Some("news"), Some("guide")},
     tag : {None, Some(""), Some("thc")},
     limit : {None, Some(1)}]

InitArticles ==
    /\ db = "up"
    /\ \E as \in SeqsUpTo(ArticlePool, MaxArticles) :
          store = [c \in Collections |-> IF c = "article" THEN WithIds(as, "a") ELSE <<>>]
    /\ nextId = 1
    /\ req = Idle
    /\ resp = NoResp
    /\ ops = <<>>

NextArticles ==
    \/ \E r \in ArticleReqs : list_articles(r)
    \/ Respond

SpecArticles == InitArticles /\ [][NextArticles]_vars

(***************************************************************************)
(* C2: the articles a valid GET /articles returns.                         *)
(***************************************************************************)
\* q occurs in text as a substring, letter case ignored.
IsSubstringCI(q, text) ==
    \E off \in 0..(Len(text) - Len(q)) :
        \A k \in 1..Len(q) : Lower(q[k]) = Lower(text[off + k])

TextHas(field, q) == field # None /\ IsSubstringCI(q, field[1])

\* The claim's predicate (an empty category or tag is read as not supplied).
ArticleSatisfies(a, r) ==
    /\ r.q # None => (TextHas(a.title, r.q[1]) \/ TextHas(a.summary, r.q[1]))
    /\ Truthy(r.category) => a.category = Some(r.category[1])
    /\ Truthy(r.tag) => r.tag[1] \in Elems(a.tags)

ArticlesAnswered == req.route = "list_articles" /\ resp.status = 200

\* C2 as stated: a successful GET /articles returns exactly the stored
\* articles, up to limit, for which q is a case-insensitive substring of the
\* title or the summary, the category is equal and the tag is in the tags,
\* for every supplied value, q being taken literally.
C2_AsStated ==
    ArticlesAnswered =>
        resp.docs = Take(SelectSeq(store["article"], LAMBDA a : ArticleSatisfies(a, req)),
                         AskedLimit(req, 20))

(***************************************************************************)
(* Large collections: the limits of the list routes and of the sitemap.    *)
(***************************************************************************)
\* More articles than the sitemap reads; every other one is news.
BulkArticles ==
    [i \in 1..(SitemapLimit + 1) |->
        ArticleDoc(Some(<<"b">>), Some("s" \o ToString(i)), None,
                   IF i % 2 = 1 THEN Some("news") ELSE None, <<>>)]

\* More doctors than a list request may ask for; every other one works in SP.
BulkDoctors ==
    [i \in 1..(LimitMax + 1) |->
        DoctorDoc(IF i % 2 = 1 THEN ListFields ELSE {}, Some(0))]

SlugPool ==
    {ArticleDoc(Some(<<"b">>), g, None, c, <<>>) :
        g \in {None, Some(""), Some("cbd")}, c \in {Some("news")}}

Limits == {None, Some(0), Some(1), Some(2), Some(100), Some(101)}

BulkArticleReqs ==
    [route : {"list_articles"}, q : {None}, category : {None, Some("news")},
     tag : {None}, limit : Limits]

BulkDoctorReqs ==
    [route : {"list_doctors"}, specialty : {None}, state : {None, Some("SP")},
     city : {None}, pathology : {None}, consultation_type : {None},
     price_max : {None}, limit : Limits]

InitBulk ==
    /\ db = "up"
    /\ \E as \in SeqsUpTo(SlugPool, MaxArticles) \cup {BulkArticles},
          ds \in SeqsUpTo({DoctorDoc(ListFields, Some(0)), DoctorDoc({}, None)}, MaxDoctors)
                 \cup {BulkDoctors} :
          store = [c \in Collections |->
                      IF c = "article" THEN WithIds(as, "a")
                      ELSE IF c = "doctor" THEN WithIds(ds, "d") ELSE <<>>]
    /\ nextId = 1
    /\ req = Idle
    /\ resp = NoResp
    /\ ops = <<>>

NextBulk ==
    \/ \E r \in BulkArticleReqs : list_articles(r)
    \/ \E r \in BulkDoctorReqs : list_doctors(r)
    \/ sitemap
    \/ StoreFails
    \/ StoreRecovers
    \/ Respond

SpecBulk == InitBulk /\ [][NextBulk]_vars

(***************************************************************************)
(* C6: what the sitemap lists.                                             *)
(***************************************************************************)
SitemapAnswered == req.route = "sitemap" /\ resp.kind = "text"

HasLine(line) == \E i \in 1..Len(resp.lines) : resp.lines[i] = line

AllStaticListed == \A i \in 1..Len(StaticPaths) : HasLine(UrlLine(StaticPaths[i]))

ArticleListed(a) == HasLine(UrlLine("/articles/" \o a.slug[1]))

\* The lines between the two opening lines and the closing one.
UrlLines == SubSeq(resp.lines, 3, Len(resp.lines) - 1)

ReadFailed == db # "up"

\* C6 as stated: the sitemap always lists every static path; when the read
\* succeeds it lists every stored article with a non-empty slug, however many
\* articles are stored; when the read fails the request succeeds and lists
\* exactly the static entries.
C6_AsStated ==
    SitemapAnswered =>
        /\ resp.status = 200
        /\ AllStaticListed
        /\ ~ReadFailed =>
              \A i \in 1..Len(store["article"]) :
                  Truthy(store["article"][i].slug) => ArticleListed(store["article"][i])
        /\ ReadFailed => UrlLines = StaticUrls

\* C6 amended: as stated, except that on a successful read the articles listed
\* are those with a non-empty slug among the first 500 stored articles.
C6_Sitemap ==
    SitemapAnswered =>
        /\ resp.status = 200
        /\ AllStaticListed
        /\ ~ReadFailed =>
              \A i \in 1..Len(store["article"]) :
                  (i <= 500 /\ Truthy(store["article"][i].slug))
                      => ArticleListed(store["article"][i])
        /\ ReadFailed => UrlLines = StaticUrls

\* A sitemap answered from more than 500 stored articles.
C6_Witness ==
    /\ SitemapAnswered
    /\ ~ReadFailed
    /\ Len(store["article"]) > 500
    /\ Len(UrlLines) = Len(StaticPaths) + 500

(***************************************************************************)
(* C7: the limit of the two list routes.                                   *)
(***************************************************************************)
ListAsked == req.route \in {"list_articles", "list_doctors"}

Matching ==
    IF req.route = "list_articles"
    THEN SelectSeq(store["article"], LAMBDA a : ArticleSatisfies(a, req))
    ELSE SelectSeq(store["doctor"], LAMBDA d : DoctorSatisfiesNonEmpty(d, req))

\* C7: a limit below 1 or above 100 ends in a validation error with no store
\* read; otherwise a successful answer holds min(limit, matching records)
\* records, an omitted limit counting as 20 for articles and 50 for doctors.
C7_Limit ==
    ListAsked =>
        IF req.limit # None /\ (req.limit[1] < 1 \/ req.limit[1] > 100)
        THEN resp.status = 422 /\ ops = <<>>
        ELSE resp.status = 200 =>
                Len(resp.docs) =
                    Min(AskedLimit(req, IF req.route = "list_articles" THEN 20 ELSE 50),
                        Len(Matching))

\* An omitted limit cuts a longer list of matches to the default.
C7_Witness ==
    /\ ListAsked /\ resp.status = 200
    /\ req.route = "list_doctors" /\ req.limit = None /\ req.state = Some("SP")
    /\ Len(Matching) > 50
    /\ Len(resp.docs) = 50

(***************************************************************************)
(* The schemas (src/schemas.py) and the validation of a request body.      *)
(***************************************************************************)
Field(name, type, required) == [name |-> name, type |-> type, required |-> required]

Doctor ==
    <<Field("name", "str", TRUE), Field("crm", "Optional[str]", FALSE),
      Field("photo_url", "Optional[HttpUrl]", FALSE), Field("specialties", "List[str]", FALSE),
      Field("pathologies", "List[str]", FALSE), Field("consultation_types", "List[str]", FALSE),
      Field("price_from", "Optional[float]", FALSE), Field("states", "List[str]", FALSE),
      Field("cities", "List[str]", FALSE), Field("clinic_name", "Optional[str]", FALSE),
      Field("languages", "List[str]", FALSE), Field("education", "Optional[str]", FALSE),
      Field("bio", "Optional[str]", FALSE), Field("whatsapp", "Optional[str]", FALSE),
      Field("email", "Optional[EmailStr]", FALSE)>>

Article ==
    <<Field("title", "str", TRUE), Field("slug", "str", TRUE),
      Field("summary", "Optional[str]", FALSE), Field("content", "Optional[str]", FALSE),
      Field("category", "Optional[str]", FALSE), Field("tags", "List[str]", FALSE),
      Field("cover_image", "Optional[HttpUrl]", FALSE), Field("author", "Optional[str]", FALSE),
      Field("published_at", "Optional[datetime]", FALSE),
      Field("related_slugs", "List[str]", FALSE)>>

AppointmentRequest ==
    <<Field("patient_name", "str", TRUE), Field("email", "EmailStr", TRUE),
      Field("phone", "str", TRUE), Field("pathology", "str", TRUE),
      Field("consultation_type", "Optional[str]", FALSE),
      Field("preferred_dates", "List[str]", FALSE), Field("state", "Optional[str]", FALSE),
      Field("city", "Optional[str]", FALSE), Field("doctor_id", "Optional[str]", FALSE),
      Field("notes", "Optional[str]", FALSE)>>

NewsletterSubscriber ==
    <<Field("email", "EmailStr", TRUE), Field("interests", "List[str]", FALSE)>>

SCHEMA_REGISTRY ==
    <<[name |-> "Doctor", model |-> Doctor], [name |-> "Article", model |-> Article],
      [name |-> "AppointmentRequest", model |-> AppointmentRequest],
      [name |-> "NewsletterSubscriber", model |-> NewsletterSubscriber]>>

\* str.lower() on the registry's names.
LowerName(n) ==
    CASE n = "Doctor" -> "doctor"
      [] n = "Article" -> "article"
      [] n = "AppointmentRequest" -> "appointmentrequest"
      [] n = "NewsletterSubscriber" -> "newslettersubscriber"

FieldNames(fields) == {fields[i].name : i \in 1..Len(fields)}

FieldOf(fields, n) == fields[CHOOSE i \in 1..Len(fields) : fields[i].name = n]

\* An address: one "@" after a non-empty local part, and a dot inside the
\* domain with a label on each side.
IsEmail(e) ==
    \E i \in 2..Len(e) :
        /\ e[i] = "@"
        /\ \A j \in 1..Len(e) : e[j] = "@" => j = i
        /\ \E k \in (i + 2)..(Len(e) - 1) : e[k] = "."

TypeOk(type, v) ==
    CASE type = "str" -> v.t = "str"
      [] type = "EmailStr" -> v.t = "str" /\ IsEmail(v.v)
      [] type = "Optional[str]" -> v.t \in {"str", "null"}
      [] type = "List[str]" -> v.t = "list"

\* Validates with every field treated as optional.
ValidatesNothingRequired(fields, body) ==
    \A i \in 1..Len(fields) :
        fields[i].name \in DOMAIN body => TypeOk(fields[i].type, body[fields[i].name])

\* A body validates when every required field is there and every field of the
\* schema that is there has its type; other fields are not looked at.
Validates(fields, body) ==
    \A i \in 1..Len(fields) :
        IF fields[i].name \in DOMAIN body
        THEN TypeOk(fields[i].type, body[fields[i].name])
        ELSE ~fields[i].required

FieldValue(f, body) ==
    IF f.name \in DOMAIN body
    THEN IF f.type = "Optional[str]"
         THEN (IF body[f.name].t = "null" THEN None ELSE Some(body[f.name].v))
         ELSE body[f.name].v
    ELSE IF f.type = "List[str]" THEN <<>> ELSE None

\* Parse with the fields the schema does not define kept (extra = "allow").
ParseKeepingExtras(fields, body) ==
    [n \in FieldNames(fields) \cup DOMAIN body |->
        IF n \in FieldNames(fields) THEN FieldValue(FieldOf(fields, n), body) ELSE body[n].v]

\* The validated model: the schema's fields, defaults filled in.
Parse(fields, body) ==
    [n \in FieldNames(fields) |-> FieldValue(FieldOf(fields, n), body)]

(***************************************************************************)
(* POST /appointment, POST /newsletter                                     *)
(***************************************************************************)
\* create_document(collection_name, data) when the store accepts it: the
\* document is appended under a fresh identifier, which is returned.
NewId == "id" \o ToString(nextId)

Insert(collection, data) ==
    /\ store' = [store EXCEPT ![collection] = Append(@, data @@ ("_id" :> NewId))]
    /\ nextId' = nextId + 1

AppointmentCollectionWrong == "doctor"

AppointmentCollection == "appointmentrequest"

NewsletterCollection == "newslettersubscriber"

\* Created with the identifier left out of the answer.
CreatedWithoutId(doc_id) ==
    [status |-> 200, kind |-> "created", body |-> [status |-> "ok", id |-> ""]]

\* return {"status": "ok", "id": doc_id}
Created(doc_id) ==
    [status |-> 200, kind |-> "created", body |-> [status |-> "ok", id |-> doc_id]]

Post(route, collection, fields, body) ==
    /\ req = Idle
    /\ Len(store[collection]) < MaxWrites
    /\ req' = [route |-> route, body |-> body]
    /\ IF ~Validates(fields, body)
       THEN /\ resp' = Rejected
            /\ ops' = <<>>
            /\ UNCHANGED <<store, nextId>>
       ELSE /\ ops' = <<InsertOp(collection)>>
            /\ IF StoreRaises
               THEN /\ resp' = [status |-> 500, kind |-> "error"]
                    /\ UNCHANGED <<store, nextId>>
               ELSE /\ Insert(collection, Parse(fields, body))
                    /\ resp' = Created(NewId)
    /\ UNCHANGED db

create_appointment(body) ==
    Post("create_appointment", AppointmentCollection, AppointmentRequest, body)

subscribe_newsletter(body) ==
    Post("subscribe_newsletter", NewsletterCollection, NewsletterSubscriber, body)

(***************************************************************************)
(* GET /, GET /test, GET /schema                                           *)
(***************************************************************************)
read_root ==
    /\ req = Idle
    /\ req' = [route |-> "read_root"]
    /\ resp' = [status |-> 200, kind |-> "json",
                body |-> [message |-> "Medicinal Cannabis Portal API is running"]]
    /\ ops' = <<>>
    /\ UNCHANGED <<db, store, nextId>>

\* db.list_collection_names(): the collections that hold documents.
list_collection_names == {c \in Collections : store[c] # <<>>}

\* test_database with the inner except clause left out.
TestStatusPropagating ==
    IF db = "none"
    THEN [status |-> 200, kind |-> "json",
          body |-> [backend |-> "Running", database |-> "db not initialized",
                    connection_status |-> "Not Connected", collections |-> {}]]
    ELSE IF db = "down"
    THEN [status |-> 500, kind |-> "error"]
    ELSE [status |-> 200, kind |-> "json",
          body |-> [backend |-> "Running", database |-> "Connected & Working",
                    connection_status |-> "Connected",
                    collections |-> list_collection_names]]

\* The status dictionary of test_database (its marks left out of the texts,
\* the two entries read from the environment left out).
TestStatus ==
    IF db = "none"
    THEN [status |-> 200, kind |-> "json",
          body |-> [backend |-> "Running", database |-> "db not initialized",
                    connection_status |-> "Not Connected", collections |-> {}]]
    ELSE IF db = "down"
    THEN [status |-> 200, kind |-> "json",
          body |-> [backend |-> "Running", database |-> "Connected but error",
                    connection_status |-> "Not Connected", collections |-> {}]]
    ELSE [status |-> 200, kind |-> "json",
          body |-> [backend |-> "Running", database |-> "Connected & Working",
                    connection_status |-> "Connected",
                    collections |-> list_collection_names]]

test_database ==
    /\ req = Idle
    /\ req' = [route |-> "test_database"]
    /\ resp' = TestStatus
    /\ ops' = IF db = "none" THEN <<>> ELSE <<[op |-> "list_collection_names", coll |-> "*"]>>
    /\ UNCHANGED <<db, store, nextId>>

get_schema ==
    /\ req = Idle
    /\ req' = [route |-> "get_schema"]
    /\ resp' = [status |-> 200, kind |-> "json",
                body |-> [i \in 1..Len(SCHEMA_REGISTRY) |->
                            [collection |-> LowerName(SCHEMA_REGISTRY[i].name),
                             fields |-> [k \in 1..Len(SCHEMA_REGISTRY[i].model) |->
                                           [name |-> SCHEMA_REGISTRY[i].model[k].name,
                                            type |-> SCHEMA_REGISTRY[i].model[k].type]]]]]
    /\ ops' = <<>>
    /\ UNCHANGED <<db, store, nextId>>

(***************************************************************************)
(* Request bodies.                                                         *)
(***************************************************************************)
Absent == [t |-> "absent"]
Str(x) == [t |-> "str", v |-> x]
List(l) == [t |-> "list", v |-> l]
\* A JSON number and null, the number kept as its literal text.
Num(n) == [t |-> "num", v |-> n]
Null == [t |-> "null", v |-> ""]

\* The JSON object that holds the fields chosen to be there.
Body(choice) == [f \in {g \in DOMAIN choice : choice[g].t # "absent"} |-> choice[f]]

GoodEmail == <<"a", "@", "a", ".", "a">>
BadEmails == {<<"a", ".", "a">>, <<"@", "a", ".", "a">>, <<"a", "@", "a">>}

AppointmentBodies ==
    {Body(c) : c \in [patient_name : {Absent, Str("Ana"), Num("7")},
                      email : {Absent, Str(GoodEmail)} \cup {Str(e) : e \in BadEmails},
                      phone : {Absent, Str("11")},
                      pathology : {Absent, Str("pain")},
                      notes : {Absent, Str("pm"), Null, Num("1")},
                      role : {Absent, Str("admin")}]}

NewsletterBodies ==
    {Body(c) : c \in [email : {Absent, Str(GoodEmail), Num(<<"7">>)} \cup {Str(e) : e \in BadEmails},
                      interests : {Absent, List(<<"Research">>), Str(<<"Research">>)},
                      role : {Absent, Str("admin")}]}

InitLeads ==
    /\ db = "up"
    /\ store = [c \in Collections |-> <<>>]
    /\ nextId = 1
    /\ req = Idle
    /\ resp = NoResp
    /\ ops = <<>>

NextLeads ==
    \/ \E b \in AppointmentBodies : create_appointment(b)
    \/ \E b \in NewsletterBodies : subscribe_newsletter(b)
    \/ StoreFails
    \/ StoreRecovers
    \/ Respond

SpecLeads == InitLeads /\ [][NextLeads]_vars

(***************************************************************************)
(* The whole service: all ten routes over a small store.                   *)
(***************************************************************************)
FewArticles ==
    <<ArticleDoc(Some(<<"A", "b">>), Some("cbd"), Some(<<"a">>), Some("news"), <<"thc">>),
      ArticleDoc(Some(<<"b">>), Some("cbd"), None, None, <<>>),
      ArticleDoc(Some(<<"b">>), Some("thc"), None, Some("news"), <<>>)>>

FewDoctors == <<DoctorDoc(ListFields, Some(200)), DoctorDoc({"states"}, None)>>

FewArticleReqs ==
    [route : {"list_articles"}, q : {None, Some(<<"a">>), Some(<<"a", "a">>)},
     category : {None, Some("guide")}, tag : {None, Some("thc")},
     limit : {None, Some(0), Some(1)}]

FewDoctorReqs ==
    [route : {"list_doctors"}, specialty : {None, Some("surgery")}, state : {None, Some("SP")},
     city : {None}, pathology : {None}, consultation_type : {None},
     price_max : {None, Some(100)}, limit : {None, Some(101), Some(1)}]

SlugReqs == [route : {"get_article"}, slug : {"cbd", "thc", "hemp"}]

FewAppointmentBodies ==
    {Body(c) : c \in [patient_name : {Absent, Str("Ana")}, email : {Str(GoodEmail)},
                      phone : {Str("11")}, pathology : {Str("pain")},
                      notes : {Absent, Str("pm")}, role : {Absent, Str("admin")}]}

FewNewsletterBodies ==
    {Body(c) : c \in [email : {Str(GoodEmail), Str(<<"a", "@", "a">>)},
                      interests : {Absent, List(<<"Research">>)}]}

Init ==
    /\ db \in {"none", "up"}
    /\ \E as \in {<<>>, FewArticles}, ds \in {<<>>, FewDoctors} :
          store = [c \in Collections |->
                      IF c = "article" THEN WithIds(as, "a")
                      ELSE IF c = "doctor" THEN WithIds(ds, "d") ELSE <<>>]
    /\ nextId = 1
    /\ req = Idle
    /\ resp = NoResp
    /\ ops = <<>>

Next ==
    \/ read_root
    \/ test_database
    \/ get_schema
    \/ \E r \in FewArticleReqs : list_articles(r)
    \/ \E r \in SlugReqs : get_article(r)
    \/ \E r \in FewDoctorReqs : list_doctors(r)
    \/ \E b \in FewAppointmentBodies : create_appointment(b)
    \/ \E b \in FewNewsletterBodies : subscribe_newsletter(b)
    \/ sitemap
    \/ robots
    \/ StoreFails
    \/ StoreRecovers
    \/ Respond

Spec == Init /\ [][Next]_vars

(***************************************************************************)
(* What the claims call a valid request.                                   *)
(***************************************************************************)
PostRoutes == {"create_appointment", "subscribe_newsletter"}

GetRoutes ==
    {"read_root", "test_database", "get_schema", "list_articles", "get_article",
     "list_doctors", "sitemap", "robots"}

OwnCollection(route) ==
    IF route = "create_appointment" THEN "appointmentrequest" ELSE "newslettersubscriber"

SchemaFields(route) ==
    IF route = "create_appointment"
    THEN {"patient_name", "email", "phone", "pathology", "consultation_type",
          "preferred_dates", "state", "city", "doctor_id", "notes"}
    ELSE {"email", "interests"}

RequiredFields(route) ==
    IF route = "create_appointment"
    THEN {"patient_name", "email", "phone", "pathology"}
    ELSE {"email"}

OptionalTexts == {"consultation_type", "state", "city", "doctor_id", "notes"}

\* A required field is missing, or a field has the wrong type, or the e-mail
\* address is malformed.
BodyInvalid(r) ==
    \/ \E f \in RequiredFields(r.route) : f \notin DOMAIN r.body
    \/ \E f \in RequiredFields(r.route) \cap DOMAIN r.body : r.body[f].t # "str"
    \/ \E f \in OptionalTexts \cap DOMAIN r.body : r.body[f].t \notin {"str", "null"}
    \/ \E f \in {"preferred_dates", "interests"} \cap DOMAIN r.body : r.body[f].t # "list"
    \/ ("email" \in DOMAIN r.body /\ r.body["email"].t = "str"
            /\ r.body["email"].v \in BadEmails \cup {<<"a", "@", "a">>})

HasUnknownField(r) == DOMAIN r.body \ SchemaFields(r.route) # {}

Posted == req.route \in PostRoutes

\* The step that answers a request.
Answering == req = Idle /\ req' # Idle

(***************************************************************************)
(* C3: an invalid body writes nothing.                                     *)
(***************************************************************************)
\* C3: a POST /appointment or POST /newsletter whose body misses a required
\* field, or has a field of the wrong type or a malformed e-mail address, ends
\* in a validation error, invokes no store write and leaves every collection
\* as it was.
C3_InvalidWritesNothing ==
    [][(Answering /\ req'.route \in PostRoutes /\ BodyInvalid(req'))
          => (resp'.status = 422 /\ ops' = <<>> /\ store' = store /\ nextId' = nextId)]_vars

\* An appointment without patient_name, refused after another one was stored.
C3_Witness ==
    /\ req.route = "create_appointment"
    /\ "patient_name" \notin DOMAIN req.body
    /\ DOMAIN req.body = {"email", "phone", "pathology"}
    /\ resp.status = 422
    /\ Len(store["appointmentrequest"]) = 1

(***************************************************************************)
(* C4: a valid body writes exactly one record.                             *)
(***************************************************************************)
Submitted(f, v) ==
    IF f \in OptionalTexts THEN (IF v.t = "null" THEN None ELSE Some(v.v)) ELSE v.v

C8_AsStated ==
    (Posted /\ HasUnknownField(req)) => (resp.status = 422 /\ ops = <<>>)

\* C8 amended: such a field is dropped, not rejected: a body that is valid
\* but for it is written (one store write, answer ok) when the store is up,
\* and every record the API has persisted has exactly the schema's field set
\* next to its identifier.
C8_UnknownFieldDropped ==
    /\ (Posted /\ HasUnknownField(req) /\ ~BodyInvalid(req) /\ db = "up")
          => (resp.status = 200 /\ ops = <<InsertOp(OwnCollection(req.route))>>)
    /\ \A route \in PostRoutes : \A j \in 1..Len(store[OwnCollection(route)]) :
          DOMAIN store[OwnCollection(route)][j] = SchemaFields(route) \cup {"_id"}

\* An appointment carrying "role", stored without it.
C8_Witness ==
    /\ req.route = "create_appointment"
    /\ "role" \in DOMAIN req.body
    /\ resp.status = 200
    /\ "role" \notin DOMAIN store["appointmentrequest"][Len(store["appointmentrequest"])]

(***************************************************************************)
(* C5: not found against an empty list.                                    *)
(***************************************************************************)
SlugStored(slug) ==
    \E i \in 1..Len(store["article"]) : store["article"][i].slug = Some(slug)

LimitInRange(r) == r.limit = None \/ (r.limit[1] >= 1 /\ r.limit[1] <= 100)

\* C5: with the store up, GET /articles/{slug} answers with a stored article
\* of that slug when there is one and with 404 when there is none, while a
\* valid GET /articles or GET /doctors that nothing matches answers 200 with
\* an empty list.
C5_NotFoundOrEmptyList ==
    /\ (req.route = "get_article" /\ db = "up") =>
          IF SlugStored(req.slug)
          THEN /\ resp.status = 200
               /\ resp.doc.slug = Some(req.slug)
               /\ \E i \in 1..Len(store["article"]) : store["article"][i] = resp.doc
          ELSE resp.status = 404
    /\ (ListAsked /\ db = "up" /\ LimitInRange(req) /\ Matching = <<>>) =>
          (resp.status = 200 /\ resp.docs = <<>>)

\* A slug no stored article has, asked of a store that holds articles.
C5_Witness ==
    /\ req.route = "get_article"
    /\ db = "up"
    /\ store["article"] # <<>>
    /\ ~SlugStored(req.slug)
    /\ resp.status = 404

(***************************************************************************)
(* C9: the store unreachable.                                              *)
(***************************************************************************)
RequestValid(r) ==
    CASE r.route \in {"list_articles", "list_doctors"} -> LimitInRange(r)
      [] r.route \in PostRoutes -> ~BodyInvalid(r)
      [] OTHER -> TRUE

\* C9: while the store is unreachable a valid request to GET /articles,
\* GET /articles/{slug}, GET /doctors, POST /appointment or POST /newsletter
\* ends in a 500 outcome, GET /sitemap.xml ends in success, and GET /test,
\* which succeeds always, reports a database that is not working, with
\* connection_status "Not Connected" and no collections.
C9_StoreUnreachable ==
    /\ req.route = "test_database" => resp.status = 200
    /\ (req # Idle /\ db # "up") =>
          /\ (req.route \in {"list_articles", "get_article", "list_doctors"} \cup PostRoutes
                /\ RequestValid(req)) => resp.status = 500
          /\ req.route = "sitemap" => resp.status = 200
          /\ req.route = "test_database" =>
                /\ resp.body.connection_status = "Not Connected"
                /\ resp.body.collections = {}
                /\ resp.body.database # "Connected & Working"

\* GET /test answered while a store that holds documents is down.
C9_Witness ==
    /\ req.route = "test_database"
    /\ db = "down"
    /\ store["article"] # <<>>
    /\ resp.status = 200

(***************************************************************************)
(* C10: what the routes leave alone.                                       *)
(***************************************************************************)
WriteOnly == {"appointmentrequest", "newslettersubscriber"}

IsPrefix(s, t) == Len(s) <= Len(t) /\ SubSeq(t, 1, Len(s)) = s

\* The documents a response carries.
Returned ==
    IF resp.kind = "list" THEN resp.docs
    ELSE IF resp.kind = "doc" THEN <<resp.doc>> ELSE <<>>

NoLeadReturned ==
    \A c \in WriteOnly : \A j \in 1..Len(store[c]) : \A i \in 1..Len(Returned) :
        Returned[i] # store[c][j]

\* C10: no step changes the doctor or the article collection, a GET request
\* changes no collection, the appointmentrequest and newslettersubscriber
\* collections only get records appended, and no response carries a record of
\* those two collections.
C10_Frame ==
    [][/\ store'["article"] = store["article"]
       /\ store'["doctor"] = store["doctor"]
       /\ (Answering /\ req'.route \in GetRoutes) => store' = store
       /\ \A c \in WriteOnly : IsPrefix(store[c], store'[c])
       /\ NoLeadReturned']_vars

\* Doctors listed after an appointment and a subscription were stored.
C10_Witness ==
    /\ req.route = "list_doctors"
    /\ resp.status = 200
    /\ Len(resp.docs) = 2
    /\ store["appointmentrequest"] # <<>>
    /\ store["newslettersubscriber"] # <<>>

====
